---- MODULE Spec2Model ----
(***************************************************************************)
(* Weather polling service: app/main.py, app/services.py, app/schema.py,   *)
(* app/models.py.                                                          *)
(*                                                                         *)
(* Two asyncio tasks run in one TaskGroup: the polling task (fetch,        *)
(* normalise, select the sample for "now", merge, persist, sleep) and the  *)
(* export task (prompt, read the ten latest records, hand the spreadsheet  *)
(* write to a one-worker process pool).                                    *)
(*                                                                         *)
(* Conventions.  Python lists are sequences and indices are 1-based here.  *)
(* A dict is a function from keys to values.  None is the string "None"    *)
(* where a string is expected and the record NoneDict where a dict is      *)
(* expected.  A call that may raise returns Ok(v) or Raise(e).  Floats are *)
(* integers: degrees are counted in 1/BearingScale of a degree, the other  *)
(* quantities in whole units.  A timestamp string "YYYY-MM-DDThh:mm" is    *)
(* the tuple <<day, hour, minute>>; a string that is no ISO timestamp is   *)
(* the empty tuple.  Labels are given in English (the source has Russian). *)
(***************************************************************************)
EXTENDS Integers, Sequences, FiniteSets, TLC

VARIABLES
    main_pc,       \* main(): "startup", "taskgroup", "cleanup", "done", "aborted"
    poll_pc,       \* polling task: "none", "fetch", "minutely", "create", "sleep",
                   \* "failed", "cancelled"
    poll_error,    \* [phase, error] of the exception that ended the polling task, or NoError
    hourly_data,   \* the hourly selection, held while the step goes on, or NoneDict
    create_data,   \* kwargs of the pending repository.create, or NoneDict
    last_created,  \* history: kwargs of the latest committed create, or NoneDict
    export_pc,     \* export task: "none", "ainput", "get_all", "failed", "cancelled"
    export_error,  \* error that ended the export task, or "None"
    writes,        \* history: number of writes submitted to the pool
    pool_queue,    \* ProcessPoolExecutor: submitted writes not yet started
    worker,        \* the pool's single worker: <<>> when idle, <<frame>> when writing
    write_result,  \* outcome of the latest write in the worker: "None", "ok", "error"
    file,          \* test.xlsx: <<>> when absent, <<frame>> when written
    store,         \* table weather_record: a set of rows
    clock,         \* wall clock: an index into Instants
    call,          \* function harness: the function applied, or "none"
    arg,           \* function harness: its input
    now_arg,       \* function harness: the clock readings it sees
    ret            \* function harness: its result

proc_vars == <<main_pc, poll_pc, poll_error, hourly_data, create_data, last_created,
               export_pc, export_error, writes, pool_queue, worker, write_result,
               file, store, clock>>
fn_vars == <<call, arg, now_arg, ret>>
vars == <<main_pc, poll_pc, poll_error, hourly_data, create_data, last_created,
          export_pc, export_error, writes, pool_queue, worker, write_result,
          file, store, clock, call, arg, now_arg, ret>>

----------------------------------------------------------------------------
(* Bounds                                                                  *)

MaxLen == 2        \* longest raw series
MaxStored == 2     \* records persisted by the polling task
MaxRecords == 11   \* records in the store of the repository harness
MaxLimit == 12     \* largest limit asked of get_all in the repository harness
MaxWrites == 2     \* spreadsheet writes submitted to the pool
BearingScale == 4  \* bearings are counted in 1/BearingScale of a degree
MaxPressure == 1400 \* highest surface pressure converted, in hPa

----------------------------------------------------------------------------
(* Values                                                                  *)

None == "None"
NoneDict == [none |-> TRUE]
NoError == [phase |-> "none", error |-> "None"]

Ok(v) == [ok |-> TRUE, value |-> v]
Raise(e) == [ok |-> FALSE, error |-> e]

Min(a, b) == IF a <= b THEN a ELSE b
Abs(a) == IF a < 0 THEN 0 - a ELSE a
Range(s) == {s[i] : i \in DOMAIN s}
SeqsUpTo(S, n) == UNION {[1..k -> S] : k \in 0..n}
Deg(d) == d * BearingScale

Days == {1, 2}
Hours == {8, 9}
Minutes == {0, 15, 45}
BadString == <<>>

\* datetime.now() at successive moments while the process runs
Instants == << [hour |-> 8, minute |-> 59], [hour |-> 9, minute |-> 0] >>
now == Instants[clock]

\* datetime.now() at successive moments in the function harness
HarnessInstants == << [hour |-> 8, minute |-> 15], [hour |-> 8, minute |-> 30],
                      [hour |-> 8, minute |-> 59], [hour |-> 9, minute |-> 0] >>

----------------------------------------------------------------------------
(* schema.py: the serializers                                              *)

\* datetime.fromisoformat
parses(s) == Len(s) = 3
fromisoformat(s) == [day |-> s[1], hour |-> s[2], minute |-> s[3]]

serialize_time(time) ==
    IF \E i \in DOMAIN time : ~parses(time[i])
    THEN Raise("ValueError")
    ELSE Ok([i \in DOMAIN time |-> fromisoformat(time[i])])

\* constants.WEATHER_CODE_MAP: a fixed dict from WMO code to label
WEATHER_CODE_MAP ==
    (0 :> "Clear") @@ (1 :> "Mainly clear") @@ (2 :> "Partly cloudy") @@ (3 :> "Overcast")

\* dict.get(key): the default is None
get(map, key) == IF key \in DOMAIN map THEN map[key] ELSE None

serialize_weather_code(codes) ==
    [i \in DOMAIN codes |-> get(WEATHER_CODE_MAP, codes[i])]

\* mutant: the first branch ends below 45, so 45 falls to the second
wind_label_strict(direction) ==
    IF (Deg(315) < direction /\ direction <= Deg(360))
          \/ (0 <= direction /\ direction < Deg(45)) THEN "North"
    ELSE IF Deg(45) <= direction /\ direction <= Deg(135) THEN "East"
    ELSE IF Deg(135) < direction /\ direction <= Deg(225) THEN "South"
    ELSE IF Deg(225) < direction /\ direction <= Deg(315) THEN "West"
    ELSE ""

\* the if/elif chain of serialize_wind_direction; "" when no branch appends
wind_label(direction) ==
    IF (Deg(315) < direction /\ direction <= Deg(360))
          \/ (0 <= direction /\ direction <= Deg(45)) THEN "North"
    ELSE IF Deg(45) < direction /\ direction <= Deg(135) THEN "East"
    ELSE IF Deg(135) < direction /\ direction <= Deg(225) THEN "South"
    ELSE IF Deg(225) < direction /\ direction <= Deg(315) THEN "West"
    ELSE ""

RECURSIVE serialize_wind_direction(_)
serialize_wind_direction(directions) ==
    IF directions = <<>> THEN <<>>
    ELSE LET label == wind_label(Head(directions))
             rest == serialize_wind_direction(Tail(directions))
         IN IF label = "" THEN rest ELSE <<label>> \o rest

\* mutant: the quotient is rounded to the nearest integer
round_1_333(pressure) == (pressure * 2000 + 1333) \div 2666

\* pressure // 1.333 for a pressure >= 0 given in whole hPa
floordiv_1_333(pressure) == (pressure * 1000) \div 1333

serialize_surface_pressure(pressures) ==
    [i \in DOMAIN pressures |-> floordiv_1_333(pressures[i])]

----------------------------------------------------------------------------
(* services.py: ValidationService over the two input schemas               *)

HourlyFields == {"time", "surface_pressure"}
MinutelyFields == {"time", "temperature_2m", "precipitation", "wind_speed_10m",
                   "wind_direction_10m", "weather_code"}

\* WeatherHourlySchemaIn(**kwargs).model_dump(by_alias=True)
weather_hourly_validation_service(kwargs) ==
    IF ~(HourlyFields \subseteq DOMAIN kwargs) THEN Raise("ValidationError")
    ELSE LET time == serialize_time(kwargs["time"])
         IN IF ~time.ok THEN Raise("PydanticSerializationError")
            ELSE Ok([time |-> time.value,
                     pressure |-> serialize_surface_pressure(kwargs["surface_pressure"])])

\* WeatherMinutelySchemaIn(**kwargs).model_dump(by_alias=True)
weather_minutely_validation_service(kwargs) ==
    IF ~(MinutelyFields \subseteq DOMAIN kwargs) THEN Raise("ValidationError")
    ELSE LET time == serialize_time(kwargs["time"])
         IN IF ~time.ok THEN Raise("PydanticSerializationError")
            ELSE Ok([time |-> time.value,
                     temperature |-> kwargs["temperature_2m"],
                     precipitation |-> kwargs["precipitation"],
                     wind_speed |-> kwargs["wind_speed_10m"],
                     wind_direction |-> serialize_wind_direction(kwargs["wind_direction_10m"]),
                     weather |-> serialize_weather_code(kwargs["weather_code"])])

----------------------------------------------------------------------------
(* services.py: the two selectors.  nows[i] is what datetime.now() returns *)
(* in the i-th pass of the loop.                                           *)

\* mutant: the scan keeps the last match instead of returning at the first
RECURSIVE hour_scan_last(_, _, _, _)
hour_scan_last(time, pressure, nows, i) ==
    IF i > Min(Len(time), Len(pressure)) THEN NoneDict
    ELSE LET later == hour_scan_last(time, pressure, nows, i + 1)
         IN IF later # NoneDict THEN later
            ELSE IF time[i].hour = nows[i].hour THEN [pressure |-> pressure[i]]
            ELSE NoneDict

RECURSIVE hour_scan(_, _, _, _)
hour_scan(time, pressure, nows, i) ==
    IF i > Min(Len(time), Len(pressure)) THEN NoneDict
    ELSE IF time[i].hour = nows[i].hour THEN [pressure |-> pressure[i]]
    ELSE hour_scan(time, pressure, nows, i + 1)

_get_current_hour_data(data, nows) ==
    hour_scan(data["time"], data["pressure"], nows, 1)

inf == -1
\* mutant: <= in place of <, so a later equal distance wins
less_or_equal(delta, best) == best = inf \/ delta <= best
less_than(delta, best) == best = inf \/ delta < best

RECURSIVE minute_scan(_, _, _, _)
minute_scan(time, nows, i, index_min_tuple) ==
    IF i > Len(time) THEN index_min_tuple
    ELSE LET delta_minutes == Abs(time[i].minute - nows[i].minute)
         IN minute_scan(time, nows, i + 1,
                        IF less_than(delta_minutes, index_min_tuple[2])
                        THEN <<i, delta_minutes>> ELSE index_min_tuple)

current_time_index(data, nows) == minute_scan(data["time"], nows, 1, <<1, inf>>)[1]

_get_current_minute_data(data, nows) ==
    LET index == current_time_index(data, nows)
    IN IF \E key \in DOMAIN data : index > Len(data[key]) THEN Raise("IndexError")
       ELSE Ok([key \in DOMAIN data |-> data[key][index]])

----------------------------------------------------------------------------
(* models.py, services.py: the table and DatabaseRepository                *)

RecordFields == {"temperature", "wind_speed", "wind_direction", "precipitation",
                 "pressure", "weather"}

\* the fields declared str: the ones that hold a label, or None, in this model
StrFields == {"wind_direction", "weather"}

next_id(rows) ==
    IF rows = {} THEN 1
    ELSE (CHOOSE r \in rows : \A q \in rows : q.id <= r.id).id + 1

\* mutant: the commit replaces the table's rows by the new one
create_replacing(rows, kwargs, db_now) ==
    {[id |-> next_id(rows),
      temperature |-> kwargs["temperature"],
      wind_speed |-> kwargs["wind_speed"],
      wind_direction |-> kwargs["wind_direction"],
      precipitation |-> kwargs["precipitation"],
      weather |-> kwargs["weather"],
      pressure |-> kwargs["pressure"],
      created_at |-> db_now]}

\* WeatherRecord(**kwargs); session.add; session.commit.  id is the serial
\* primary key, created_at the server default func.now()
create(rows, kwargs, db_now) ==
    rows \cup {[id |-> next_id(rows),
                temperature |-> kwargs["temperature"],
                wind_speed |-> kwargs["wind_speed"],
                wind_direction |-> kwargs["wind_direction"],
                precipitation |-> kwargs["precipitation"],
                weather |-> kwargs["weather"],
                pressure |-> kwargs["pressure"],
                created_at |-> db_now]}

\* mutant: desc sorts upwards and the default sorts downwards
order_by_id_flipped(rows, descending) ==
    [i \in 1..Cardinality(rows) |->
        CHOOSE r \in rows :
            Cardinality({q \in rows : IF descending THEN q.id < r.id ELSE q.id > r.id}) = i - 1]

\* ORDER BY id / ORDER BY id desc: the rows as a list
order_by_id(rows, descending) ==
    [i \in 1..Cardinality(rows) |->
        CHOOSE r \in rows :
            Cardinality({q \in rows : IF descending THEN q.id > r.id ELSE q.id < r.id}) = i - 1]

\* mutant: the order_by argument is dropped, the rows come in the default order
get_all_default_order(rows, order_by, limit) ==
    LET ordered == order_by_id(rows, FALSE)
    IN SubSeq(ordered, 1, Min(limit, Len(ordered)))

\* select(table).order_by(text(order_by if order_by else "id")).limit(limit)
get_all(rows, order_by, limit) ==
    LET ordered == order_by_id(rows, (IF order_by = None THEN "id" ELSE order_by) = "id desc")
    IN SubSeq(ordered, 1, Min(limit, Len(ordered)))

\* Base.to_dict: every column attribute
to_dict(row) == row

\* WeatherRecordCreateSchema(**kwargs).model_dump(by_alias=True): the six
\* fields, every one required and not None; other keys are ignored
weather_record_create_validation_service(kwargs) ==
    IF ~(RecordFields \subseteq DOMAIN kwargs) THEN Raise("ValidationError")
    ELSE IF \E f \in StrFields : kwargs[f] = None THEN Raise("ValidationError")
    ELSE Ok([f \in RecordFields |-> kwargs[f]])

\* serialize_created_at: drop the zone, add three hours
serialize_created_at(created_at) ==
    [hour |-> (created_at.hour + 3) % 24, minute |-> created_at.minute]

\* WeatherRecordSchemaOut(**kwargs).model_dump(by_alias=True): the column
\* headers of the sheet
weather_out_validation_service(kwargs) ==
    IF ~((RecordFields \cup {"created_at"}) \subseteq DOMAIN kwargs)
    THEN Raise("ValidationError")
    ELSE IF \E f \in StrFields : kwargs[f] = None THEN Raise("ValidationError")
    ELSE Ok([Temperature |-> kwargs["temperature"],
             WindSpeed |-> kwargs["wind_speed"],
             WindDirection |-> kwargs["wind_direction"],
             Precipitation |-> kwargs["precipitation"],
             Pressure |-> kwargs["pressure"],
             Weather |-> kwargs["weather"],
             DateTime |-> serialize_created_at(kwargs["created_at"])])

\* GetAllRecordService.__call__: the rows, each validated for output
weather_record_get_all_service(rows, order_by, limit) ==
    LET data == get_all(rows, order_by, limit)
        out == [i \in DOMAIN data |-> weather_out_validation_service(to_dict(data[i]))]
    IN IF \E i \in DOMAIN out : ~out[i].ok THEN Raise("ValidationError")
       ELSE Ok([i \in DOMAIN out |-> out[i].value])

----------------------------------------------------------------------------
(* What the provider may answer                                            *)

\* a raw series as the provider sends it: one list per field
RawSeries(samples, fields) ==
    [f \in fields |-> [i \in DOMAIN samples |-> samples[i][f]]]
Without(raw, field) == [f \in DOMAIN raw \ {field} |-> raw[f]]
Truncated(raw, field) ==
    [f \in DOMAIN raw |->
        IF f = field /\ raw[f] # <<>> THEN SubSeq(raw[f], 1, Len(raw[f]) - 1) ELSE raw[f]]

Reading(t, p, w, b, c) ==
    [temperature_2m |-> t, precipitation |-> p, wind_speed_10m |-> w,
     wind_direction_10m |-> b, weather_code |-> c]
At(time, reading) == [f \in MinutelyFields |-> IF f = "time" THEN time ELSE reading[f]]

Calm == Reading(5, 0, 3, Deg(10), 0)
Storm == Reading(-2, 1, 7, Deg(200), 3)
OffScale == Reading(1, 0, 5, Deg(400), 1)      \* a bearing outside [0, 360]
Unlisted == Reading(9, 2, 4, Deg(90), 99)       \* a code WEATHER_CODE_MAP lacks

PollHourlySamples ==
    {[time |-> <<1, 8, 0>>, surface_pressure |-> 1013],
     [time |-> <<1, 9, 0>>, surface_pressure |-> 1333]}
PollMinutelySamples ==
    {At(<<1, 8, 15>>, Calm), At(<<1, 9, 0>>, OffScale), At(<<1, 8, 45>>, Unlisted)}

PollHourly == {RawSeries(s, HourlyFields) : s \in SeqsUpTo(PollHourlySamples, MaxLen)}
PollMinutely == {RawSeries(s, MinutelyFields) : s \in SeqsUpTo(PollMinutelySamples, MaxLen)}

GoodHourly == RawSeries(<<[time |-> <<1, 8, 0>>, surface_pressure |-> 1013]>>, HourlyFields)
GoodMinutely == RawSeries(<<At(<<1, 8, 15>>, Calm)>>, MinutelyFields)

\* response["hourly"] and response["minutely_15"]; a body without them is the
\* provider's error report
HourlyAnswers ==
    PollHourly \cup {Without(GoodHourly, "surface_pressure"),
                     Truncated(GoodHourly, "surface_pressure"),
                     [GoodHourly EXCEPT !["time"] = <<BadString>>]}
MinutelyAnswers ==
    PollMinutely \cup {Without(GoodMinutely, "weather_code"),
                       Truncated(GoodMinutely, "temperature_2m"),
                       [GoodMinutely EXCEPT !["time"] = <<BadString>>]}

----------------------------------------------------------------------------
(* services.py: one pass of DownloadCreateWeatherRecordService.__call__,   *)
(* from the response to the kwargs handed to repository.create             *)

Failed(phase, error) == [ok |-> FALSE, phase |-> phase, error |-> error]

\* minutely_data | hourly_data
merge(left, right) ==
    IF right = NoneDict THEN Raise("TypeError")
    ELSE Ok([key \in DOMAIN left \cup DOMAIN right |->
                IF key \in DOMAIN right THEN right[key] ELSE left[key]])

\* lines 127-128: the hourly half of the pass
hourly_pass(hourly, nows) ==
    LET validated == weather_hourly_validation_service(hourly)
    IN IF ~validated.ok THEN Failed("hourly_validation", validated.error)
       ELSE Ok(_get_current_hour_data(validated.value, nows))

\* lines 129-136, up to the await of the commit: the minutely half, the merge
\* and the validation of the kwargs of the create
minutely_pass(minutely, hour_data, nows) ==
    LET validated == weather_minutely_validation_service(minutely)
    IN IF ~validated.ok THEN Failed("minutely_validation", validated.error) ELSE
    LET minutely_data == _get_current_minute_data(validated.value, nows)
    IN IF ~minutely_data.ok THEN Failed("minute_selection", minutely_data.error) ELSE
    LET create_kwargs == merge(minutely_data.value, hour_data)
    IN IF ~create_kwargs.ok THEN Failed("merge", create_kwargs.error) ELSE
    LET checked == weather_record_create_validation_service(create_kwargs.value)
    IN IF ~checked.ok THEN Failed("create_validation", checked.error)
       ELSE Ok(checked.value)

----------------------------------------------------------------------------
(* services.py: the operator's answer                                      *)

\* a line is a list of characters; the Cyrillic letters of the source are
\* written cyr_d, cyr_a (capitals CYR_D, CYR_A)
Whitespace == {" ", "\n"}
Upper == ("Y" :> "y") @@ ("E" :> "e") @@ ("S" :> "s") @@ ("N" :> "n")
            @@ ("CYR_D" :> "cyr_d") @@ ("CYR_A" :> "cyr_a")

RECURSIVE lstrip(_)
lstrip(line) ==
    IF line # <<>> /\ Head(line) \in Whitespace THEN lstrip(Tail(line)) ELSE line
RECURSIVE rstrip(_)
rstrip(line) ==
    IF line # <<>> /\ line[Len(line)] \in Whitespace
    THEN rstrip(SubSeq(line, 1, Len(line) - 1)) ELSE line
strip(line) == rstrip(lstrip(line))
\* mutant: the answer is compared as typed, capitals kept
keep_case(line) == line
lower(line) == [i \in DOMAIN line |-> IF line[i] \in DOMAIN Upper THEN Upper[line[i]] ELSE line[i]]

AffirmativeTokens == {<<"cyr_d", "cyr_a">>, <<"y", "e", "s">>, <<"y">>, <<"cyr_d">>}
affirmative(input_data) == lower(strip(input_data)) \in AffirmativeTokens

\* what sys.stdin.readline may return; <<>> is end of input
Lines == {<<"y", "\n">>, <<" ", "Y", "E", "S", " ", "\n">>, <<"CYR_D", "\n">>,
          <<"cyr_d", "cyr_a", "\n">>, <<"n", "\n">>, <<"y", " ", "y", "\n">>, <<>>}

----------------------------------------------------------------------------
(* The asyncio event loop runs one step of one task at a time.  A task    *)
(* that sits at an await, or has ended, leaves the loop free.              *)

PollAwaits == {"fetch", "create", "sleep"}      \* "minutely" is inside a step
ExportAwaits == {"ainput", "get_all"}
Ended == {"none", "failed", "cancelled"}

LoopFree == poll_pc \in PollAwaits \cup Ended /\ export_pc \in ExportAwaits \cup Ended

\* mutant: the step waits for the write, Future.result(), inside the loop
waits_for_write == "result"

\* where the export task is once loop.run_in_executor has returned: the
\* future is dropped and the while loop is back at `await self.ainput()`
after_run_in_executor == "ainput"

\* the export's read: the ten latest rows
ExportLimit == 10
export_read(rows) == weather_record_get_all_service(rows, "id desc", ExportLimit)

\* mutant: the frame is built without the rows
DataFrame_empty(weather_records) == <<>>

\* DataFrame(weather_records): the rows of the sheet
DataFrame(weather_records) == weather_records

----------------------------------------------------------------------------
(* main.py: main()                                                         *)

\* before main() runs
ProcInit ==
    /\ main_pc = "startup"
    /\ poll_pc = "none"
    /\ poll_error = NoError
    /\ hourly_data = NoneDict
    /\ create_data = NoneDict
    /\ last_created = NoneDict
    /\ export_pc = "none"
    /\ export_error = None
    /\ writes = 0
    /\ pool_queue = <<>>
    /\ worker = <<>>
    /\ write_result = None
    /\ file = <<>>
    /\ store = {}
    /\ clock = 1

Init ==
    /\ ProcInit
    /\ call = "none"
    /\ arg = <<>>
    /\ now_arg = <<>>
    /\ ret = <<>>

\* create_async_engine, drop_all, create_all, ClientSession, the pool, and
\* the two tasks of the TaskGroup, each run up to its first await
Startup ==
    /\ main_pc = "startup"
    /\ main_pc' = "taskgroup"
    /\ store' = {}
    /\ poll_pc' = "fetch"
    /\ export_pc' = "ainput"
    /\ UNCHANGED <<writes, poll_error, hourly_data, create_data, last_created, export_error, pool_queue,
                   worker, write_result, file, clock>>
    /\ UNCHANGED fn_vars

\* the schema or the session cannot be set up: main() raises
StartupFails ==
    /\ main_pc = "startup"
    /\ main_pc' = "aborted"
    /\ UNCHANGED <<writes, poll_pc, poll_error, hourly_data, create_data, last_created, export_pc,
                   export_error, pool_queue, worker, write_result, file, store, clock>>
    /\ UNCHANGED fn_vars

\* TaskGroup.__aexit__: a task ended with an exception, the other task is
\* cancelled, the ExceptionGroup is swallowed by `except Exception: pass`
TaskGroupAbort ==
    /\ main_pc = "taskgroup"
    /\ LoopFree
    /\ poll_pc = "failed" \/ export_pc = "failed"
    /\ main_pc' = "cleanup"
    /\ poll_pc' = IF poll_pc = "failed" THEN "failed" ELSE "cancelled"
    /\ export_pc' = IF export_pc = "failed" THEN "failed" ELSE "cancelled"
    /\ UNCHANGED <<writes, poll_error, hourly_data, create_data, last_created, export_error, pool_queue,
                   worker, write_result, file, store, clock>>
    /\ UNCHANGED fn_vars

\* finally: session.close, engine.dispose, pool.shutdown() which waits for
\* the submitted writes; then asyncio.run returns and the process ends
MainCleanup ==
    /\ main_pc = "cleanup"
    /\ pool_queue = <<>>
    /\ worker = <<>>
    /\ main_pc' = "done"
    /\ UNCHANGED <<writes, poll_pc, poll_error, hourly_data, create_data, last_created, export_pc,
                   export_error, pool_queue, worker, write_result, file, store, clock>>
    /\ UNCHANGED fn_vars

----------------------------------------------------------------------------
(* services.py: the polling task                                           *)

\* the clock as a scan of n passes reads it when it ticks after pass `tick`
Readings(n, tick) ==
    [i \in 1..n |-> Instants[IF i <= tick THEN clock ELSE Min(clock + 1, Len(Instants))]]
ClockAfter(n, tick) == IF tick < n THEN Min(clock + 1, Len(Instants)) ELSE clock

PollRaises(phase, error) ==
    /\ poll_pc' = "failed"
    /\ poll_error' = [phase |-> phase, error |-> error]
    /\ hourly_data' = NoneDict
    /\ create_data' = NoneDict

\* the request fails: session.get or response.json raises
PollFetchFails ==
    /\ main_pc = "taskgroup"
    /\ LoopFree
    /\ poll_pc = "fetch"
    /\ PollRaises("fetch", "ClientError")
    /\ UNCHANGED <<writes, main_pc, last_created, export_pc, export_error, pool_queue, worker,
                   write_result, file, store, clock>>
    /\ UNCHANGED fn_vars

\* the response is no forecast: response["hourly"] raises
PollFetchError ==
    /\ main_pc = "taskgroup"
    /\ LoopFree
    /\ poll_pc = "fetch"
    /\ PollRaises("hourly_validation", "KeyError")
    /\ UNCHANGED <<writes, main_pc, last_created, export_pc, export_error, pool_queue, worker,
                   write_result, file, store, clock>>
    /\ UNCHANGED fn_vars

\* the response arrives: lines 127-128.  The step goes on in PollMinutelyDone,
\* where the minutely half of the response is drawn as it is first read
PollFetchDone ==
    /\ main_pc = "taskgroup"
    /\ LoopFree
    /\ poll_pc = "fetch"
    /\ Cardinality(store) < MaxStored
    /\ \E hourly \in HourlyAnswers, tick \in 1..MaxLen :
          LET result == hourly_pass(hourly, Readings(MaxLen, tick))
          IN /\ IF result.ok
                THEN /\ poll_pc' = "minutely"
                     /\ hourly_data' = result.value
                     /\ UNCHANGED <<poll_error, create_data>>
                ELSE PollRaises(result.phase, result.error)
             /\ clock' = ClockAfter(MaxLen, tick)
    /\ UNCHANGED <<writes, main_pc, last_created, export_pc, export_error, pool_queue, worker,
                   write_result, file, store>>
    /\ UNCHANGED fn_vars

\* lines 129-136 of the same step, up to the await of the commit
PollMinutelyDone ==
    /\ main_pc = "taskgroup"
    /\ poll_pc = "minutely"
    /\ \E minutely \in MinutelyAnswers, tick \in 1..MaxLen :
          LET result == minutely_pass(minutely, hourly_data, Readings(MaxLen, tick))
          IN /\ IF result.ok
                THEN /\ poll_pc' = "create"
                     /\ create_data' = result.value
                     /\ hourly_data' = NoneDict
                     /\ UNCHANGED poll_error
                ELSE PollRaises(result.phase, result.error)
             /\ clock' = ClockAfter(MaxLen, tick)
    /\ UNCHANGED <<writes, main_pc, last_created, export_pc, export_error, pool_queue, worker,
                   write_result, file, store>>
    /\ UNCHANGED fn_vars

\* session.commit() returns: the row is in the table; then asyncio.sleep
PollCreateDone ==
    /\ main_pc = "taskgroup"
    /\ LoopFree
    /\ poll_pc = "create"
    /\ store' = create(store, create_data, now)
    /\ last_created' = create_data
    /\ create_data' = NoneDict
    /\ poll_pc' = "sleep"
    /\ UNCHANGED <<writes, main_pc, poll_error, hourly_data, export_pc, export_error, pool_queue,
                   worker, write_result, file, clock>>
    /\ UNCHANGED fn_vars

\* session.commit() raises
PollCreateFails ==
    /\ main_pc = "taskgroup"
    /\ LoopFree
    /\ poll_pc = "create"
    /\ PollRaises("persist", "SQLAlchemyError")
    /\ UNCHANGED <<writes, main_pc, last_created, export_pc, export_error, pool_queue, worker,
                   write_result, file, store, clock>>
    /\ UNCHANGED fn_vars

\* asyncio.sleep(settings.TIME_TO_REQUEST) is over: the next request goes out
PollSleepDone ==
    /\ main_pc = "taskgroup"
    /\ LoopFree
    /\ poll_pc = "sleep"
    /\ poll_pc' = "fetch"
    /\ UNCHANGED <<writes, main_pc, poll_error, hourly_data, create_data, last_created, export_pc,
                   export_error, pool_queue, worker, write_result, file, store, clock>>
    /\ UNCHANGED fn_vars

----------------------------------------------------------------------------
(* services.py: the export task and the pool's worker                      *)

\* the step of the export task that reads one line: anything but an accepted
\* token prompts again
ExportInput(input_data) ==
    /\ main_pc = "taskgroup"
    /\ LoopFree
    /\ export_pc = "ainput"
    /\ affirmative(input_data) => writes < MaxWrites
    /\ export_pc' = IF affirmative(input_data) THEN "get_all" ELSE "ainput"
    /\ UNCHANGED <<writes, main_pc, poll_pc, poll_error, hourly_data, create_data, last_created,
                   export_error, pool_queue, worker, write_result, file, store, clock>>

\* a line arrives from stdin
ExportInputDone ==
    /\ \E input_data \in Lines : ExportInput(input_data)
    /\ UNCHANGED fn_vars

\* the step of the export task that follows the read: validate the rows,
\* build the frame, submit the write
ExportRead ==
    /\ main_pc = "taskgroup"
    /\ LoopFree
    /\ export_pc = "get_all"
    /\ LET weather_records == export_read(store)
       IN IF weather_records.ok
          THEN /\ pool_queue' = Append(pool_queue, DataFrame(weather_records.value))
               /\ writes' = writes + 1
               /\ export_pc' = after_run_in_executor
               /\ export_error' = export_error
          ELSE /\ pool_queue' = pool_queue
               /\ writes' = writes
               /\ export_pc' = "failed"
               /\ export_error' = weather_records.error
    /\ UNCHANGED <<main_pc, poll_pc, poll_error, hourly_data, create_data, last_created, worker,
                   write_result, file, store, clock>>

\* the rows arrive
ExportReadDone ==
    /\ ExportRead
    /\ UNCHANGED fn_vars

\* session.scalars raises
ExportReadFails ==
    /\ main_pc = "taskgroup"
    /\ LoopFree
    /\ export_pc = "get_all"
    /\ export_pc' = "failed"
    /\ export_error' = "SQLAlchemyError"
    /\ UNCHANGED <<writes, main_pc, poll_pc, poll_error, hourly_data, create_data, last_created, pool_queue,
                   worker, write_result, file, store, clock>>
    /\ UNCHANGED fn_vars

\* the worker process takes the oldest submitted write
WorkerStart ==
    /\ worker = <<>>
    /\ pool_queue # <<>>
    /\ worker' = <<Head(pool_queue)>>
    /\ pool_queue' = Tail(pool_queue)
    /\ UNCHANGED <<writes, main_pc, poll_pc, poll_error, hourly_data, create_data, last_created, export_pc,
                   export_error, write_result, file, store, clock>>
    /\ UNCHANGED fn_vars

\* data_frame.to_excel("test.xlsx", ...) returns in the worker
WorkerDone ==
    /\ worker # <<>>
    /\ worker' = <<>>
    /\ file' = worker
    /\ write_result' = "ok"
    /\ UNCHANGED <<writes, main_pc, poll_pc, poll_error, hourly_data, create_data, last_created, export_pc,
                   export_error, pool_queue, store, clock>>
    /\ UNCHANGED fn_vars

\* to_excel raises in the worker: the exception is set on a future nobody reads
WorkerFails ==
    /\ worker # <<>>
    /\ worker' = <<>>
    /\ write_result' = "error"
    /\ UNCHANGED <<writes, main_pc, poll_pc, poll_error, hourly_data, create_data, last_created, export_pc,
                   export_error, pool_queue, file, store, clock>>
    /\ UNCHANGED fn_vars

\* time passes
Tick ==
    /\ clock < Len(Instants)
    /\ clock' = clock + 1
    /\ UNCHANGED <<writes, main_pc, poll_pc, poll_error, hourly_data, create_data, last_created, export_pc,
                   export_error, pool_queue, worker, write_result, file, store>>
    /\ UNCHANGED fn_vars

Next ==
    \/ Startup
    \/ StartupFails
    \/ TaskGroupAbort
    \/ MainCleanup
    \/ PollFetchFails
    \/ PollFetchError
    \/ PollFetchDone
    \/ PollMinutelyDone
    \/ PollCreateDone
    \/ PollCreateFails
    \/ PollSleepDone
    \/ ExportInputDone
    \/ ExportReadDone
    \/ ExportReadFails
    \/ WorkerStart
    \/ WorkerDone
    \/ WorkerFails
    \/ Tick

Spec == Init /\ [][Next]_vars

----------------------------------------------------------------------------
(* Function harness: the selectors and the serializers applied to bounded  *)
(* inputs.  The selectors get what the validation services return.         *)

HourlySamples ==
    {[time |-> <<d, h, 0>>, surface_pressure |-> p] :
        d \in Days, h \in Hours, p \in {1013, 1333}}
MinutelySamples ==
    {At(t, r) : t \in {<<1, 8, 15>>, <<1, 8, 45>>, <<1, 9, 0>>, <<1, 9, 15>>},
                r \in {Calm, Storm, OffScale}}

WithRagged(raws, field) == raws \cup {Truncated(raw, field) : raw \in raws}

HarnessHourly ==
    {weather_hourly_validation_service(raw).value :
        raw \in WithRagged({RawSeries(s, HourlyFields) :
                               s \in SeqsUpTo(HourlySamples, MaxLen)}, "surface_pressure")}
HarnessMinutely ==
    {weather_minutely_validation_service(raw).value :
        raw \in WithRagged({RawSeries(s, MinutelyFields) :
                               s \in SeqsUpTo(MinutelySamples, MaxLen)}, "temperature_2m")}

\* raw series as the provider may send them: whole, with one list a value
\* short, with a field missing, with a timestamp that is none
RawHourlyInputs ==
    WithRagged({RawSeries(s, HourlyFields) : s \in SeqsUpTo(HourlySamples, MaxLen)},
               "surface_pressure")
    \cup {Without(GoodHourly, f) : f \in HourlyFields}
    \cup {[GoodHourly EXCEPT !["time"] = <<BadString>>]}
RawMinutelyInputs ==
    WithRagged({RawSeries(s, MinutelyFields) : s \in SeqsUpTo(MinutelySamples, MaxLen)},
               "temperature_2m")
    \cup {Without(GoodMinutely, f) : f \in MinutelyFields}
    \cup {[GoodMinutely EXCEPT !["time"] = <<BadString>>]}

\* surface pressures in hPa, as one-element lists
PressureLists == {<<p>> : p \in 0..MaxPressure}

\* one reading of the clock, used for every pass of a scan
OneNow == {[i \in 1..MaxLen |-> HarnessInstants[k]] : k \in DOMAIN HarnessInstants}

\* the hourly selection the minutely half of a pass is merged with
HarnessHourData == [pressure |-> 759]

\* the clock never goes back between two reads
NowSeqs(n) ==
    {[i \in 1..n |-> HarnessInstants[s[i]]] :
        s \in {t \in [1..n -> DOMAIN HarnessInstants] :
                  \A i \in 1..(n - 1) : t[i] <= t[i + 1]}}

Bearings == (0 - Deg(2))..Deg(362)
BearingLists ==
    {<<b>> : b \in Bearings}
    \cup SeqsUpTo({0, Deg(45), Deg(45) + 1, Deg(315), Deg(360), Deg(400), 0 - 1}, MaxLen)
CodeLists == SeqsUpTo({0, 1, 2, 3, 4, 99}, MaxLen)

Functions == {"hour", "minute", "wind", "code", "pressure", "hourly_validation",
              "minutely_validation", "hourly_pass", "minutely_pass"}

\* the inputs of each function, and the clock readings it is run against
FnArgs(f) ==
    CASE f = "hour" -> HarnessHourly
      [] f = "minute" -> HarnessMinutely
      [] f = "wind" -> BearingLists
      [] f = "code" -> CodeLists
      [] f = "pressure" -> PressureLists
      [] f \in {"hourly_validation", "hourly_pass"} -> RawHourlyInputs
      [] f \in {"minutely_validation", "minutely_pass"} -> RawMinutelyInputs
FnNows(f) ==
    CASE f \in {"hour", "minute"} -> NowSeqs(MaxLen)
      [] f \in {"hourly_pass", "minutely_pass"} -> OneNow
      [] OTHER -> {<<>>}

FnInit ==
    /\ ProcInit
    /\ call = "none"
    /\ ret = <<>>
    /\ \E f \in Functions :
          \E x \in FnArgs(f), nows \in FnNows(f) :
              /\ arg = [f |-> f, x |-> x]
              /\ now_arg = nows

Returns(f, value) ==
    /\ call = "none"
    /\ arg.f = f
    /\ call' = f
    /\ ret' = value
    /\ UNCHANGED <<arg, now_arg>>
    /\ UNCHANGED proc_vars

CallHour == Returns("hour", _get_current_hour_data(arg.x, now_arg))
CallMinute == Returns("minute", _get_current_minute_data(arg.x, now_arg))
CallWind == Returns("wind", serialize_wind_direction(arg.x))
CallCode == Returns("code", serialize_weather_code(arg.x))
CallPressure == Returns("pressure", serialize_surface_pressure(arg.x))
CallHourlyValidation ==
    Returns("hourly_validation", weather_hourly_validation_service(arg.x))
CallMinutelyValidation ==
    Returns("minutely_validation", weather_minutely_validation_service(arg.x))
CallHourlyPass == Returns("hourly_pass", hourly_pass(arg.x, now_arg))
CallMinutelyPass ==
    Returns("minutely_pass", minutely_pass(arg.x, HarnessHourData, now_arg))

FnNext ==
    \/ CallHour
    \/ CallMinute
    \/ CallWind
    \/ CallCode
    \/ CallPressure
    \/ CallHourlyValidation
    \/ CallMinutelyValidation
    \/ CallHourlyPass
    \/ CallMinutelyPass

SpecFn == FnInit /\ [][FnNext]_vars

----------------------------------------------------------------------------
(* Repository harness: DatabaseRepository and the export's read over a     *)
(* table filled by any sequence of creates                                 *)

RepoKwargs ==
    {[temperature |-> 5, wind_speed |-> 3, wind_direction |-> "North",
      precipitation |-> 0, pressure |-> 759, weather |-> "Clear"],
     [temperature |-> 0 - 2, wind_speed |-> 7, wind_direction |-> "South",
      precipitation |-> 1, pressure |-> 1000, weather |-> "Overcast"]}

\* the harness fills the table, then reads it once
RepoCreate ==
    /\ call \in {"none", "create"}
    /\ Cardinality(store) < MaxRecords
    /\ \E kwargs \in RepoKwargs :
          /\ store' = create(store, kwargs, now)
          /\ arg' = kwargs
    /\ call' = "create"
    /\ ret' = <<>>
    /\ UNCHANGED <<main_pc, poll_pc, poll_error, hourly_data, create_data, last_created,
                   export_pc, export_error, writes, pool_queue, worker, write_result,
                   file, clock, now_arg>>

RepoGetAll ==
    /\ call \in {"none", "create"}
    /\ \E order_by \in {None, "id", "id desc"}, limit \in {0, 1, 2, ExportLimit, MaxLimit} :
          /\ arg' = <<order_by, limit>>
          /\ ret' = get_all(store, order_by, limit)
    /\ call' = "get_all"
    /\ UNCHANGED now_arg
    /\ UNCHANGED proc_vars

RepoExportRead ==
    /\ call \in {"none", "create"}
    /\ arg' = <<"id desc", ExportLimit>>
    /\ ret' = export_read(store)
    /\ call' = "export_read"
    /\ UNCHANGED now_arg
    /\ UNCHANGED proc_vars

RepoNext ==
    \/ RepoCreate
    \/ RepoGetAll
    \/ RepoExportRead

SpecRepo == Init /\ [][RepoNext]_vars

----------------------------------------------------------------------------
(* Export harness: the export task and the worker over a table that grows, *)
(* with the operator's lines and the snapshots read kept as history: arg   *)
(* is the list of lines read so far, ret the list of snapshots for which a *)
(* write was submitted.                                                    *)

\* a record is persisted while the export task is at an await
ExportHarnessPersist ==
    /\ main_pc = "taskgroup"
    /\ LoopFree
    /\ Cardinality(store) < MaxStored
    /\ \E kwargs \in RepoKwargs : store' = create(store, kwargs, now)
    /\ UNCHANGED <<main_pc, poll_pc, poll_error, hourly_data, create_data, last_created,
                   export_pc, export_error, writes, pool_queue, worker, write_result,
                   file, clock>>
    /\ UNCHANGED fn_vars

ExportHarnessLine ==
    /\ Len(arg) < MaxWrites
    /\ \E input_data \in Lines :
          /\ ExportInput(input_data)
          /\ arg' = Append(arg, input_data)
    /\ call' = "ainput"
    /\ UNCHANGED <<now_arg, ret>>

ExportHarnessRead ==
    /\ ExportRead
    /\ ret' = IF export_read(store).ok THEN Append(ret, export_read(store).value) ELSE ret
    /\ call' = "get_all"
    /\ UNCHANGED <<arg, now_arg>>

ExportNext ==
    \/ Startup
    \/ ExportHarnessPersist
    \/ ExportHarnessLine
    \/ ExportHarnessRead
    \/ ExportReadFails
    \/ WorkerStart
    \/ WorkerDone
    \/ WorkerFails

SpecExport == Init /\ [][ExportNext]_vars

----------------------------------------------------------------------------
(* Properties                                                              *)

Stable(nows) == \A i \in DOMAIN nows : nows[i] = nows[1]
Rectangular(data) == \A key \in DOMAIN data : Len(data[key]) = Len(data["time"])
Cardinals == {"North", "East", "South", "West"}

\* C1: an error raised in any phase of a polling pass is caught inside the
\* loop and the loop goes on to its sleep: the polling task never ends.
C1_FailureIsolation == [][poll_error' # poll_error => poll_pc' = "sleep"]_vars

\* C2: when the hourly selection finds no sample for the current hour (the
\* selector's None reaches the merge), the pass ends in the sleep without a
\* record persisted and without the task ending.
C2_NoMatchRecoverable ==
    [][(poll_pc = "minutely" /\ hourly_data = NoneDict /\ poll_error'.phase = "merge")
          => (poll_pc' = "sleep" /\ store' = store)]_vars

\* C3: once startup is over no error is fatal for the rest: a failed export
\* task leaves the polling task running, a failed polling task leaves the
\* export task running and the process alive.
C3_NoGlobalFatal ==
    /\ export_pc = "failed" => poll_pc # "cancelled"
    /\ poll_pc = "failed" => (export_pc # "cancelled" /\ main_pc # "done")

\* C4: against one current hour h the hourly selector returns the pressure of
\* the first sample whose hour of day is h, whatever its date, and None when
\* there is none.
C4_HourlyFirstMatch ==
    (call = "hour" /\ Stable(now_arg)) =>
        LET time == arg.x["time"]
            pressure == arg.x["pressure"]
            matches == {i \in 1..Min(Len(time), Len(pressure)) :
                           time[i].hour = now_arg[1].hour}
        IN IF matches = {} THEN ret = NoneDict
           ELSE \E i \in matches :
                   /\ \A j \in matches : i <= j
                   /\ ret = [pressure |-> pressure[i]]

C4_Witness ==
    /\ call = "hour"
    /\ Stable(now_arg)
    /\ Len(arg.x["time"]) = 2
    /\ Len(arg.x["pressure"]) = 2
    /\ arg.x["time"][1].hour = now_arg[1].hour
    /\ arg.x["time"][2].hour = now_arg[1].hour
    /\ arg.x["time"][1].day # arg.x["time"][2].day
    /\ arg.x["pressure"][1] # arg.x["pressure"][2]
    /\ ret = [pressure |-> arg.x["pressure"][1]]

\* C5: against one current minute m the sub-hourly selector returns, for a
\* non-empty series, the sample at the lowest index among those whose minute
\* of the hour is nearest to m; so it always returns a sample, and a series
\* of one sample returns that sample.
C5_MinutelyFirstNearest ==
    (call = "minute" /\ Stable(now_arg) /\ Rectangular(arg.x) /\ arg.x["time"] # <<>>) =>
        LET time == arg.x["time"]
            delta(i) == Abs(time[i].minute - now_arg[1].minute)
        IN /\ ret.ok
           /\ \E i \in DOMAIN time :
                 /\ \A j \in DOMAIN time : delta(i) <= delta(j)
                 /\ \A j \in 1..(i - 1) : delta(j) > delta(i)
                 /\ ret.value = [key \in DOMAIN arg.x |-> arg.x[key][i]]

C5_Witness ==
    /\ call = "minute"
    /\ Stable(now_arg)
    /\ Rectangular(arg.x)
    /\ Len(arg.x["time"]) = 2
    /\ Abs(arg.x["time"][1].minute - now_arg[1].minute)
          = Abs(arg.x["time"][2].minute - now_arg[1].minute)
    /\ arg.x["time"][1].minute # arg.x["time"][2].minute
    /\ arg.x["temperature"][1] # arg.x["temperature"][2]
    /\ ret.ok
    /\ ret.value["temperature"] = arg.x["temperature"][1]

\* C6: every bearing in [0, 360] gets exactly one cardinal label: North in
\* (315, 360] and [0, 45], East in (45, 135], South in (135, 225], West in
\* (225, 315].
C6_BearingBuckets ==
    (call = "wind" /\ \A i \in DOMAIN arg.x : 0 <= arg.x[i] /\ arg.x[i] <= Deg(360)) =>
        /\ Len(ret) = Len(arg.x)
        /\ \A i \in DOMAIN arg.x :
              LET b == arg.x[i]
              IN /\ ret[i] \in Cardinals
                 /\ ret[i] = "North" <=> (Deg(315) < b \/ b <= Deg(45))
                 /\ ret[i] = "East" <=> (Deg(45) < b /\ b <= Deg(135))
                 /\ ret[i] = "South" <=> (Deg(135) < b /\ b <= Deg(225))
                 /\ ret[i] = "West" <=> (Deg(225) < b /\ b <= Deg(315))

C6_Witness ==
    /\ call = "wind"
    /\ arg.x = <<Deg(45), Deg(45) + 1>>
    /\ ret = <<"North", "East">>

\* C7: every weather code gets a label; a code the lookup does not hold gets
\* a sentinel label, never a missing value.
C7_UnknownCodeLabelled ==
    call = "code" => (Len(ret) = Len(arg.x) /\ \A i \in DOMAIN ret : ret[i] # None)

C9_ReadOrdering ==
    /\ call = "get_all" =>
          LET descending == arg[1] = "id desc"
          IN /\ Len(ret) = Min(arg[2], Cardinality(store))
             /\ Range(ret) \subseteq store
             /\ \A i \in DOMAIN ret, j \in DOMAIN ret :
                   i < j => IF descending THEN ret[i].id > ret[j].id
                                          ELSE ret[i].id < ret[j].id
             /\ \A r \in store \ Range(ret), q \in Range(ret) :
                   IF descending THEN r.id < q.id ELSE r.id > q.id
    /\ call = "export_read" =>
          LET latest == get_all(store, "id desc", ExportLimit)
          IN /\ ret.ok
             /\ Len(ret.value) = Min(ExportLimit, Cardinality(store))
             /\ \A i \in DOMAIN latest :
                   /\ \A r \in store \ Range(latest) : r.id < latest[i].id
                   /\ \A j \in DOMAIN latest : i < j => latest[i].id > latest[j].id
                   /\ ret.value[i] = weather_out_validation_service(latest[i]).value

C9_Witness ==
    /\ call = "get_all"
    /\ arg = <<"id desc", ExportLimit>>
    /\ Cardinality(store) > ExportLimit
    /\ Len(ret) = ExportLimit
    /\ \E r \in store : r \notin Range(ret)

\* C10: a spreadsheet write that is pending or running never holds up the
\* polling task: the task can end its sleep and send its next request.
C10_WriteNeverBlocksPolling ==
    (main_pc = "taskgroup" /\ poll_pc = "sleep" /\ (pool_queue # <<>> \/ worker # <<>>))
        => ENABLED PollSleepDone

C10_Witness ==
    /\ main_pc = "taskgroup"
    /\ poll_pc = "sleep"
    /\ worker # <<>>
    /\ pool_queue # <<>>

\* the lines of Lines whose trimmed, lower-cased text is an accepted token
AcceptedLines ==
    {<<"y", "\n">>, <<" ", "Y", "E", "S", " ", "\n">>, <<"CYR_D", "\n">>,
     <<"cyr_d", "cyr_a", "\n">>}
Accepted(lines) == Cardinality({i \in DOMAIN lines : lines[i] \in AcceptedLines})

\* C11: a line that is no accepted answer changes nothing (no read, no write
\* submitted, table untouched) and the task prompts again; an accepted line
\* starts one read of the table and nothing else; each read that returns
\* submits one write, of the snapshot read, and the task prompts again.  So
\* the reads number the accepted lines and the writes the reads returned.
C11_PromptFrame ==
    [][/\ Len(arg') = Len(arg) + 1 =>
             /\ UNCHANGED <<store, pool_queue, worker, file, writes, ret>>
             /\ export_pc' = IF arg'[Len(arg')] \in AcceptedLines THEN "get_all" ELSE "ainput"
       /\ ret' # ret =>
             /\ export_pc = "get_all"
             /\ export_pc' = "ainput"
             /\ writes' = writes + 1
             /\ ret' = Append(ret, export_read(store).value)
             /\ pool_queue' = Append(pool_queue, ret'[Len(ret')])
             /\ store' = store
       /\ Len(ret') = writes'
       /\ Accepted(arg') = writes' + (IF export_pc' \in {"get_all", "failed"} THEN 1 ELSE 0)
      ]_vars

C11_Witness ==
    /\ Len(arg) = 2
    /\ arg[1] = <<"y", " ", "y", "\n">>
    /\ arg[2] = <<" ", "Y", "E", "S", " ", "\n">>
    /\ store # {}
    /\ writes = 1
    /\ Len(ret) = 1
    /\ export_pc = "ainput"

\* C12: a write that failed in the worker becomes known to the export task:
\* once the latest write has failed, the task holds the failure by the time
\* it takes its next step of its own (the operator's next accepted answer).
C12_FailedWriteReported ==
    [][(write_result = "error" /\ export_pc' # export_pc /\ export_pc' # "cancelled")
          => export_error' # None]_vars

\* a raw series lacks a required field, or its lists differ in length
Malformed(raw, fields) ==
    \/ ~(fields \subseteq DOMAIN raw)
    \/ \E f \in DOMAIN raw, g \in DOMAIN raw : Len(raw[f]) # Len(raw[g])
RequiredFields(f) ==
    IF f \in {"hourly_validation", "hourly_pass"} THEN HourlyFields ELSE MinutelyFields

\* C13: a raw series that lacks a required field, or whose lists differ in
\* length, is refused by the normalization with a validation error, and the
\* pass that received it yields no selection and no record.
C13_MalformedRejected ==
    (/\ call \in {"hourly_validation", "minutely_validation", "hourly_pass", "minutely_pass"}
     /\ Malformed(arg.x, RequiredFields(call)))
        => (~ret.ok /\ ret.error = "ValidationError")

\* C14: the conversion is the floor of the quotient by 1.333: the largest
\* integer q with q * 1.333 <= x, never the nearest one; 1333 hPa, an exact
\* multiple, gives 1000, and 1332 hPa gives 999.
C14_PressureFloor ==
    call = "pressure" =>
        /\ Len(ret) = Len(arg.x)
        /\ \A i \in DOMAIN arg.x :
              /\ ret[i] * 1333 <= arg.x[i] * 1000
              /\ arg.x[i] * 1000 < (ret[i] + 1) * 1333
              /\ arg.x[i] = 1333 => ret[i] = 1000
              /\ arg.x[i] = 1332 => ret[i] = 999

\* 1013 hPa is 759.94 mmHg: the floor is 759 where rounding gives 760
C14_Witness ==
    /\ call = "pressure"
    /\ arg.x = <<1013>>
    /\ ret = <<759>>

\* C14 as stated: the conversion of 1333 hPa is 999
C14_Convert1333Is999 ==
    call = "pressure" => \A i \in DOMAIN arg.x : arg.x[i] = 1333 => ret[i] = 999

\* C15: for a raw series that has every field, with lists of one length,
\* and that the normalization accepts, every list of the normalized series
\* has the length of the raw series.
C15_CardinalityPreserved ==
    (/\ call \in {"hourly_validation", "minutely_validation"}
     /\ ~Malformed(arg.x, RequiredFields(call))
     /\ ret.ok)
        => \A key \in DOMAIN ret.value : Len(ret.value[key]) = Len(arg.x["time"])

\* C16: once startup is over every stored record stays in the table as it
\* is; the table changes only by the polling task's commit, which adds one
\* record; no step of the export task or of the worker changes the table.
C16_AppendOnly ==
    [][main_pc # "startup" =>
          /\ \A r \in store : r \in store'
          /\ store' # store =>
                (poll_pc = "create" /\ Cardinality(store') = Cardinality(store) + 1)
          /\ (\/ export_pc' # export_pc
              \/ writes' # writes
              \/ pool_queue' # pool_queue
              \/ worker' # worker
              \/ write_result' # write_result
              \/ file' # file) => store' = store
      ]_vars

\* a snapshot of one record was written, a second record was persisted, and
\* a second write has failed
C16_Witness ==
    /\ Cardinality(store) = 2
    /\ file # <<>>
    /\ Len(file[1]) = 1
    /\ writes = 2
    /\ write_result = "error"

\* the clock of a scan held at one reading
Held(nows, t) == [i \in DOMAIN nows |-> t]

\* C17: whatever the clock does while a selector scans its series, the
\* selector returns what it would return against one of the instants read
\* during the scan, used for every comparison.
C17_SingleInstant ==
    /\ call = "hour" =>
          \E t \in Range(now_arg) : ret = _get_current_hour_data(arg.x, Held(now_arg, t))
    /\ call = "minute" =>
          \E t \in Range(now_arg) : ret = _get_current_minute_data(arg.x, Held(now_arg, t))

\* C18: the record a pass builds from a raw series that has every field,
\* with lists of one length, takes every sub-hourly value from one raw
\* sample, the one whose timestamp the selector chose.
C18_FieldAlignment ==
    (call = "minutely_pass" /\ ~Malformed(arg.x, MinutelyFields) /\ ret.ok) =>
        LET i == current_time_index([time |-> serialize_time(arg.x["time"]).value], now_arg)
        IN /\ ret.value["temperature"] = arg.x["temperature_2m"][i]
           /\ ret.value["precipitation"] = arg.x["precipitation"][i]
           /\ ret.value["wind_speed"] = arg.x["wind_speed_10m"][i]
           /\ ret.value["wind_direction"] = wind_label(arg.x["wind_direction_10m"][i])
           /\ ret.value["weather"] = get(WEATHER_CODE_MAP, arg.x["weather_code"][i])

\* C19: at most one write runs at a time; the write that runs and the
\* writes that wait are the latest submitted snapshots, in the order of
\* their submission, the running one being the oldest; and when no write
\* runs or waits and the latest one succeeded, test.xlsx holds the snapshot
\* read for the operator's last accepted answer.
C19_WritesSerialized ==
    LET unfinished == worker \o pool_queue
    IN /\ Len(worker) <= 1
       /\ Len(unfinished) <= Len(ret)
       /\ unfinished = SubSeq(ret, Len(ret) - Len(unfinished) + 1, Len(ret))
       /\ (ret # <<>> /\ unfinished = <<>> /\ write_result = "ok")
             => file = <<ret[Len(ret)]>>

\* two different snapshots were submitted, both writes are over, and the
\* file holds the second
C19_Witness ==
    /\ Len(ret) = 2
    /\ ret[1] # ret[2]
    /\ worker = <<>>
    /\ pool_queue = <<>>
    /\ write_result = "ok"
    /\ file = <<ret[2]>>

====
